---- MODULE Spec2Model ----
(***************************************************************************)
(* vidshare: the video router (routes/videos.js), its Mongoose Video model *)
(* and the collections it reads and writes.                                *)
(*                                                                         *)
(* Every request handler is an async function: it runs synchronously up to *)
(* an await, the awaited database or blob-store call commits atomically,   *)
(* and other requests may run between two awaits.  One action of the model *)
(* is one awaited call together with the synchronous code that follows it  *)
(* up to the next await.                                                   *)
(*                                                                         *)
(* JavaScript strings are sequences of one-character strings, so that      *)
(* includes, split and the regular expressions are computed, not assumed.  *)
(***************************************************************************)
EXTENDS Integers, Sequences, FiniteSets, TLC

\* ------------------------------------------------------------------ bounds
NumSlots    == 2    \* requests in flight at once
MaxVideos   == 2    \* ObjectIds the store hands out (1..MaxVideos)
MaxViews    == 2    \* fetches are not started beyond this view count
MaxVersion  == 4    \* like requests are not started beyond this __v
MaxTime     == 1    \* Date.now() ranges over 0..MaxTime
MaxCatalog  == 3    \* videos of the catalogue that is listed
MaxPage     == 3    \* page numbers asked for
MaxVolume   == 2    \* the volume slider takes the values 0..MaxVolume (of MaxVolume)
MaxFetches  == 3    \* catalogue requests the Home page sends

\* line 209: limit = 12 when the query gives none
DefaultLimit == 12

Slots    == 1..NumSlots
VideoIds == 1..MaxVideos
Users    == {"u1", "u2"}
Anon     == "anon"

\* ----------------------------------------------------------------- strings
CLOUDINARY_COM   == <<"c","l","o","u","d","i","n","a","r","y",".","c","o","m">>
DRIVE_GOOGLE_COM == <<"d","r","i","v","e",".","g","o","o","g","l","e",".","c","o","m">>
ID_EQ            == <<"i","d","=">>
FILE_D           == <<"/","f","i","l","e","/","d","/">>
LINK_            == <<"l","i","n","k","_">>
DRIVE_           == <<"d","r","i","v","e","_">>
\* the literals of generateThumbnailUrl (lines 42-92)
YOUTUBE_COM ==
    <<"y","o","u","t","u","b","e",".","c","o","m">>
YOUTU_BE ==
    <<"y","o","u","t","u",".","b","e">>
YOUTUBE_WATCH ==
    <<"y","o","u","t","u","b","e",".","c","o","m","/","w","a","t","c",
      "h","?","v","=">>
YOUTU_BE_SLASH ==
    <<"y","o","u","t","u",".","b","e","/">>
V_EQ ==
    <<"v","=">>
VIMEO_COM ==
    <<"v","i","m","e","o",".","c","o","m">>
VIDEO_SEG ==
    <<"/","v","i","d","e","o","/">>
VIDEO_SO_0 ==
    <<"/","v","i","d","e","o","/","s","o","_","0","/">>
DRIVE_THUMB ==
    <<"h","t","t","p","s",":","/","/","d","r","i","v","e",".","g","o",
      "o","g","l","e",".","c","o","m","/","t","h","u","m","b","n","a",
      "i","l","?","i","d","=">>
DRIVE_THUMB_SZ ==
    <<"&","s","z","=","w","8","0","0","-","h","4","5","0">>
YT_THUMB ==
    <<"h","t","t","p","s",":","/","/","i","m","g",".","y","o","u","t",
      "u","b","e",".","c","o","m","/","v","i","/">>
YT_THUMB_END ==
    <<"/","m","a","x","r","e","s","d","e","f","a","u","l","t",".","j",
      "p","g">>
VUMBNAIL ==
    <<"h","t","t","p","s",":","/","/","v","u","m","b","n","a","i","l",
      ".","c","o","m","/">>
DOT_JPG ==
    <<".","j","p","g">>
Placeholder ==
    <<"h","t","t","p","s",":","/","/","i","m","a","g","e","s",".","u",
      "n","s","p","l","a","s","h",".","c","o","m","/","p","h","o","t",
      "o","-","1","6","1","1","1","6","2","6","1","7","4","7","4","-",
      "5","b","2","1","e","8","7","9","e","1","1","3","?","w","=","8",
      "0","0","&","h","=","4","5","0","&","f","i","t","=","c","r","o",
      "p","&","c","r","o","p","=","c","e","n","t","e","r">>
\* null and undefined: one value that is no string of characters
Null             == <<"(null)">>

\* String.prototype.startsWith(t, i - 1)
StartsWithAt(s, t, i) ==
    /\ i >= 1
    /\ i + Len(t) - 1 <= Len(s)
    /\ \A k \in 1..Len(t) : s[i + k - 1] = t[k]

\* String.prototype.includes
Includes(s, t) == \E i \in 1..(Len(s) + 1) : StartsWithAt(s, t, i)

\* the longest run of characters other than c that starts at position i
RunUntil(s, i, c) ==
    LET stops == {j \in i..Len(s) : s[j] = c}
        end   == IF stops = {} THEN Len(s)
                 ELSE (CHOOSE j \in stops : \A k \in stops : j <= k) - 1
    IN  SubSeq(s, i, end)

\* s.split(c) for a one-character separator: the last and the first piece
LastPiece(s, c) ==
    LET seps == {j \in 1..Len(s) : s[j] = c}
        from == IF seps = {} THEN 1
                ELSE (CHOOSE j \in seps : \A k \in seps : j >= k) + 1
    IN  SubSeq(s, from, Len(s))

FirstPiece(s, c) == RunUntil(s, 1, c)

\* s.match(/[?&]id=([^&]+)/): the capture of the leftmost match, or Null
MatchIdParam(s) ==
    LET at == {i \in 1..Len(s) :
                 /\ s[i] \in {"?", "&"}
                 /\ StartsWithAt(s, ID_EQ, i + 1)
                 /\ i + 4 <= Len(s)
                 /\ s[i + 4] # "&"}
    IN  IF at = {} THEN Null
        ELSE RunUntil(s, (CHOOSE i \in at : \A k \in at : i <= k) + 4, "&")

\* s.match(/\/file\/d\/([^/]+)/): the capture of the leftmost match, or Null
MatchFilePath(s) ==
    LET at == {i \in 1..Len(s) :
                 /\ StartsWithAt(s, FILE_D, i)
                 /\ i + 8 <= Len(s)
                 /\ s[i + 8] # "/"}
    IN  IF at = {} THEN Null
        ELSE RunUntil(s, (CHOOSE i \in at : \A k \in at : i <= k) + 8, "/")

\* String.prototype.indexOf(t) + 1: the leftmost occurrence of t, 0 for none
IndexOf(s, t) ==
    LET at == {i \in 1..(Len(s) + 1) : StartsWithAt(s, t, i)}
    IN  IF at = {} THEN 0 ELSE CHOOSE i \in at : \A k \in at : i <= k

\* s.split(t)[0] and s.split(t)[1] for a separator t of several characters
\* that s contains
BeforeFirst(s, t) == IF IndexOf(s, t) = 0 THEN s ELSE SubSeq(s, 1, IndexOf(s, t) - 1)

AfterFirst(s, t) == SubSeq(s, IndexOf(s, t) + Len(t), Len(s))

SecondPiece(s, t) == BeforeFirst(AfterFirst(s, t), t)

\* s.replace(a, b) for a string a: the leftmost occurrence is replaced
ReplaceFirst(s, a, b) ==
    IF IndexOf(s, a) = 0 THEN s ELSE BeforeFirst(s, a) \o b \o AfterFirst(s, a)

\* a bug: the query pattern wins over the path pattern
driveFileId_queryFirst(videoUrl) ==
    IF MatchIdParam(videoUrl) # Null THEN MatchIdParam(videoUrl)
    ELSE MatchFilePath(videoUrl)

\* lines 51-63: the file id of a Drive URL, the path pattern winning over the
\* query pattern
driveFileId(videoUrl) ==
    IF MatchFilePath(videoUrl) # Null THEN MatchFilePath(videoUrl)
    ELSE MatchIdParam(videoUrl)

\* a bug: the query string that follows the id is not cut off
youtubeVideoId_noTrim(videoUrl) ==
    IF Includes(videoUrl, YOUTUBE_WATCH) THEN SecondPiece(videoUrl, V_EQ)
    ELSE IF Includes(videoUrl, YOUTU_BE_SLASH)
    THEN SecondPiece(videoUrl, YOUTU_BE_SLASH)
    ELSE <<>>

\* lines 72-77: the video id of a YouTube URL, '' for none
youtubeVideoId(videoUrl) ==
    IF Includes(videoUrl, YOUTUBE_WATCH)
    THEN FirstPiece(SecondPiece(videoUrl, V_EQ), "&")
    ELSE IF Includes(videoUrl, YOUTU_BE_SLASH)
    THEN FirstPiece(SecondPiece(videoUrl, YOUTU_BE_SLASH), "?")
    ELSE <<>>

\* a bug: the Vimeo rule is applied without looking for its marker
generateThumbnailUrl_noFallback(videoUrl) ==
    IF Includes(videoUrl, CLOUDINARY_COM)
    THEN ReplaceFirst(videoUrl, VIDEO_SEG, VIDEO_SO_0)
    ELSE IF Includes(videoUrl, DRIVE_GOOGLE_COM) /\ driveFileId(videoUrl) # Null
    THEN DRIVE_THUMB \o driveFileId(videoUrl) \o DRIVE_THUMB_SZ
    ELSE IF (Includes(videoUrl, YOUTUBE_COM) \/ Includes(videoUrl, YOUTU_BE))
            /\ youtubeVideoId(videoUrl) # <<>>
    THEN YT_THUMB \o youtubeVideoId(videoUrl) \o YT_THUMB_END
    ELSE VUMBNAIL \o FirstPiece(LastPiece(videoUrl, "/"), "?") \o DOT_JPG

generateThumbnailUrl(videoUrl) ==
    IF Includes(videoUrl, CLOUDINARY_COM)
    THEN ReplaceFirst(videoUrl, VIDEO_SEG, VIDEO_SO_0)
    ELSE IF Includes(videoUrl, DRIVE_GOOGLE_COM) /\ driveFileId(videoUrl) # Null
    THEN DRIVE_THUMB \o driveFileId(videoUrl) \o DRIVE_THUMB_SZ
    ELSE IF (Includes(videoUrl, YOUTUBE_COM) \/ Includes(videoUrl, YOUTU_BE))
            /\ youtubeVideoId(videoUrl) # <<>>
    THEN YT_THUMB \o youtubeVideoId(videoUrl) \o YT_THUMB_END
    ELSE IF Includes(videoUrl, VIMEO_COM)
    THEN VUMBNAIL \o FirstPiece(LastPiece(videoUrl, "/"), "?") \o DOT_JPG
    ELSE Placeholder

extractVideoId(videoUrl) ==
    IF Includes(videoUrl, CLOUDINARY_COM)
    THEN FirstPiece(LastPiece(videoUrl, "/"), ".")
    ELSE IF Includes(videoUrl, DRIVE_GOOGLE_COM) /\ MatchIdParam(videoUrl) # Null
    THEN DRIVE_ \o MatchIdParam(videoUrl)
    ELSE IF Includes(videoUrl, DRIVE_GOOGLE_COM) /\ MatchFilePath(videoUrl) # Null
    THEN DRIVE_ \o MatchFilePath(videoUrl)
    ELSE Null

\* s.split(c) for a one-character separator
RECURSIVE Split(_, _)
Split(s, c) ==
    IF \A i \in 1..Len(s) : s[i] # c THEN <<s>>
    ELSE <<FirstPiece(s, c)>> \o Split(SubSeq(s, Len(FirstPiece(s, c)) + 2, Len(s)), c)

\* String.prototype.trim
RECURSIVE Trim(_)
Trim(s) ==
    IF s = <<>> THEN s
    ELSE IF Head(s) = " " THEN Trim(Tail(s))
    ELSE IF s[Len(s)] = " " THEN Trim(SubSeq(s, 1, Len(s) - 1))
    ELSE s

\* lines 141 and 187: tags ? tags.split(',').map(tag => tag.trim()) : []
parseTags(tags) ==
    IF tags = Null \/ tags = <<>> THEN <<>>
    ELSE [i \in 1..Len(Split(tags, ",")) |-> Trim(Split(tags, ",")[i])]

\* ------------------------------------------------- the blob store's answers
\* CloudinaryStorage stores an upload under folder/<generated name> and gives
\* the handler req.file.filename (the public id, folder included) and
\* req.file.path (the delivery URL).  The folder is abbreviated to "vsp".
FileName(n) == <<"v","s","p","/","f", ToString(n)>>

FilePath(n) ==
    <<"h","t","t","p","s",":","/","/","r","e","s",".">> \o CLOUDINARY_COM
    \o <<"/","v","i","d","e","o","/","u","p","l","o","a","d","/">>
    \o FileName(n) \o <<".","m","p","4">>

\* ------------------------------------------------------- request bodies
UrlDirect     == <<"h","t","t","p","s",":","/","/","x",".","i","o","/","a",".","m","p","4">>
UrlDriveShare == <<"h","t","t","p","s",":","/","/">> \o DRIVE_GOOGLE_COM
                 \o FILE_D \o <<"D","1","/","v","i","e","w">>
UrlNoScheme   == <<"x",".","i","o","/","a">>
\* a link that repeats the delivery URL of the first uploaded file
UrlCloudLink  == FilePath(1)

\* the end-to-end example of a YouTube short link
UrlYoutuBe    ==
    <<"h","t","t","p","s",":","/","/","y","o","u","t","u",".","b","e",
      "/","a","b","c","1","2","3","?","t","=","5">>

LinkBodies == {UrlDirect, UrlDriveShare, UrlCloudLink, UrlNoScheme, <<>>, Null}

Letters == {"a","b","c","d","e","f","g","h","i","j","k","l","m","n","o","p","q",
            "r","s","t","u","v","w","x","y","z"}

\* new URL(s) does not throw: s has a scheme, and something follows it
IsValidUrl(s) ==
    /\ s # Null
    /\ \E i \in 2..Len(s) :
         /\ s[i] = ":"
         /\ \A k \in 1..(i - 1) : s[k] \in Letters
         /\ \E k \in (i + 1)..Len(s) : s[k] # "/"

\* ---------------------------------------------------------------- state
VARIABLES
    videos,    \* the Video collection: _id -> document
    users,     \* the User collection: _id -> the user's videos array
    blobs,     \* public ids of the objects in the blob store
    now,       \* Date.now()
    nextId,    \* the next fresh ObjectId / generated blob name
    req,       \* per slot: the request in flight, its locals and position
    pair,      \* history: the latest run of like requests by one user on one
               \* video with no other request on that video in between
    home,      \* the Home page of a browser: its state and its requests
    player     \* the VideoPlayer component of a browser and its media element

vars == <<videos, users, blobs, now, nextId, req, pair, home, player>>

\* the browser
ui == <<home, player>>

\* Home before it is mounted (useState([]), useState(true))
NoHome ==
    [mounted |-> FALSE, searchQuery |-> <<>>, videos |-> <<>>, loading |-> TRUE,
     pending |-> {}, sent |-> 0]

\* VideoPlayer before it is mounted: the initial values of its useState
\* calls, and a media element that is paused at full volume
NoPlayer ==
    [mounted |-> FALSE, src |-> Null, embedUrl |-> Null,
     isPlaying |-> FALSE, showControls |-> TRUE, timer |-> "none",
     volume |-> MaxVolume, isMuted |-> FALSE,
     paused |-> TRUE, elVolume |-> MaxVolume]

store == <<videos, users, blobs>>

NoDoc ==
    [uploader |-> Anon, likes |-> <<>>, views |-> 0, isPrivate |-> FALSE,
     createdAt |-> 0, videoUrl |-> <<>>, cloudinaryId |-> <<>>, v |-> 0,
     title |-> <<>>, description |-> <<>>, thumbnailUrl |-> <<>>, tags |-> <<>>]

\* req.body of an upload: title, description and tags as the caller sent them
PlainBody == [title |-> <<"c","l","i","p">>, description |-> Null, tags |-> Null]

\* the fields of new Video({...}) that come from req.body, as the schema casts
\* them (title and description: trim; a description not given stays unset)
withBody(doc, body) ==
    [doc EXCEPT !.title = IF body.title = Null THEN <<>> ELSE Trim(body.title),
                !.description = IF body.description = Null THEN <<>>
                                ELSE Trim(body.description),
                !.tags = parseTags(body.tags)]

NoBody ==
    [views |-> 0, liked |-> FALSE, likesCount |-> 0, videos |-> <<>>,
     totalPages |-> 0]

Idle ==
    [op |-> "none", pc |-> "idle", user |-> Anon, vid |-> 0, doc |-> NoDoc,
     status |-> 0, body |-> NoBody, blobErr |-> FALSE, page |-> 0, limit |-> 0,
     by |-> "handler", err |-> "none", search |-> Null, url |-> Null]

NoPair == [n |-> 0, user |-> Anon, vid |-> 0, likes0 |-> <<>>]

\* the request as it arrives
Arrive(op, u, v) == [Idle EXCEPT !.op = op, !.user = u, !.vid = v]

\* res.status(status).json(body): the handler is over, the reply is on its way
Reply(r, status, body) ==
    [Idle EXCEPT !.op = r.op, !.pc = "respond", !.user = r.user, !.vid = r.vid,
                 !.status = status, !.body = body, !.blobErr = r.blobErr,
                 !.page = r.page, !.limit = r.limit, !.search = r.search,
                 !.url = r.url]

\* catch (error) { res.status(500).json({ message }) }: err is what was
\* thrown, "rejected" for a call the database refused, "nomatch" for a save
\* whose update matched no document
ReplyCatch(r, err) == [Reply(r, 500, NoBody) EXCEPT !.by = "catch", !.err = err]

\* a bug: the not-found message is sent without its status
notFoundReply_200(r) == Reply(r, 200, NoBody)

\* if (!video) return res.status(404).json(...)
notFoundReply(r) == Reply(r, 404, NoBody)

\* return res.status(400).json(...)
badRequestReply(r) == Reply(r, 400, NoBody)

\* return res.status(403).json(...)
notOwnerReply(r) == Reply(r, 403, NoBody)

\* a bug: the owner is not taken from the authenticated caller
FileDoc_noOwner(u, n, t) ==
    [NoDoc EXCEPT !.createdAt = t,
                  !.videoUrl = FilePath(n), !.cloudinaryId = FileName(n),
                  !.thumbnailUrl = generateThumbnailUrl(FilePath(n))]

\* new Video({...}) of a file upload by user u at time t, given the id n
FileDoc(u, n, t) ==
    [NoDoc EXCEPT !.uploader = u, !.createdAt = t,
                  !.videoUrl = FilePath(n), !.cloudinaryId = FileName(n),
                  !.thumbnailUrl = generateThumbnailUrl(FilePath(n))]

\* line 177
linkCloudinaryId(videoUrl, t) ==
    LET id == extractVideoId(videoUrl)
    IN  IF id = Null \/ id = <<>> THEN LINK_ \o <<ToString(t)>> ELSE id

\* new Video({...}) of a link upload
LinkDoc(u, videoUrl, t) ==
    [NoDoc EXCEPT !.uploader = u, !.createdAt = t,
                  !.videoUrl = videoUrl,
                  !.thumbnailUrl = generateThumbnailUrl(videoUrl),
                  !.cloudinaryId = linkCloudinaryId(videoUrl, t)]

\* a database holding one uploaded file, public or private
Init ==
    /\ \E p \in BOOLEAN :
         videos = (1 :> [withBody(FileDoc("u1", 1, 0), PlainBody)
                           EXCEPT !.isPrivate = p])
    /\ users = [u \in Users |-> IF u = "u1" THEN <<1>> ELSE <<>>]
    /\ blobs = {FileName(1)}
    /\ now = 0
    /\ nextId = 2
    /\ req = [s \in Slots |-> Idle]
    /\ pair = NoPair
    /\ home = NoHome
    /\ player = NoPlayer

\* requests between their first and their last database call
InFlightOn(v, s) ==
    {t \in Slots \ {s} : req[t].pc \notin {"idle", "respond"} /\ req[t].vid = v}

\* the history of like runs: another request arrives for video v
PairArrive(v) == IF pair.vid = v THEN NoPair ELSE pair

\* ------------------------------------------------------- POST /:id/like
\* MongooseArray.includes
likesIncludes(likes, u) == \E i \in 1..Len(likes) : likes[i] = u

\* a bug: the caller is appended whether listed or not
toggleLikes_alwaysPush(likes, u) == Append(likes, u)

\* lines 323-329: the toggle on the loaded document
toggleLikes(likes, u) ==
    IF likesIncludes(likes, u)
    THEN SelectSeq(likes, LAMBDA id : id # u)
    ELSE Append(likes, u)

\* the history of like runs: a like request of u for v has loaded the video
PairLikeFind(s, u, v) ==
    IF InFlightOn(v, s) # {} THEN PairArrive(v)
    ELSE IF pair.n = 2 /\ pair.user = u /\ pair.vid = v THEN [pair EXCEPT !.n = 3]
    ELSE [n |-> 1, user |-> u, vid |-> v, likes0 |-> videos[v].likes]

LikeFind(s, u, v) ==
    /\ req[s].pc = "idle"
    /\ v \in DOMAIN videos => videos[v].v < MaxVersion
    /\ IF v \notin DOMAIN videos
       THEN /\ req' = [req EXCEPT ![s] = notFoundReply(Arrive("like", u, v))]
            /\ pair' = PairArrive(v)
       ELSE /\ req' = [req EXCEPT ![s] =
                 [Arrive("like", u, v) EXCEPT
                    !.pc = "save",
                    !.doc = [videos[v] EXCEPT !.likes = toggleLikes(@, u)],
                    !.body = [NoBody EXCEPT
                                !.liked = ~likesIncludes(videos[v].likes, u)]]]
            /\ pair' = PairLikeFind(s, u, v)
    /\ UNCHANGED <<store, now, nextId>>
    /\ UNCHANGED ui

\* video.save() of the like handler.  Mongoose writes the changes of the
\* document, not the document: a push is sent as $push with $inc __v, an
\* assigned array as $set under the condition that __v is the loaded one, and
\* an update that matches no document rejects the save.
LikeSaveWrite(r) ==
    IF r.body.liked
    THEN [videos EXCEPT ![r.vid].likes = Append(@, r.user), ![r.vid].v = @ + 1]
    ELSE [videos EXCEPT ![r.vid].likes = r.doc.likes, ![r.vid].v = @ + 1]

\* a bug: the update of an assigned array carries no version condition
LikeSaveMatches_noVersion(r) == r.vid \in DOMAIN videos

LikeSaveMatches(r) ==
    /\ r.vid \in DOMAIN videos
    /\ r.body.liked \/ videos[r.vid].v = r.doc.v

\* the history of like runs: the like request r is over
PairLikeDone(r, ok) ==
    IF pair.vid # r.vid THEN pair
    ELSE IF ok /\ pair.n \in {1, 3} /\ pair.user = r.user
    THEN [pair EXCEPT !.n = @ + 1]
    ELSE NoPair

LikeSave(s) ==
    LET r == req[s] IN
    /\ r.op = "like" /\ r.pc = "save"
    /\ IF LikeSaveMatches(r)
       THEN /\ videos' = LikeSaveWrite(r)
            /\ req' = [req EXCEPT ![s] =
                 Reply(r, 200, [r.body EXCEPT !.likesCount = Len(r.doc.likes)])]
            /\ pair' = PairLikeDone(r, TRUE)
       ELSE /\ videos' = videos
            /\ req' = [req EXCEPT ![s] = ReplyCatch(r, "nomatch")]
            /\ pair' = PairLikeDone(r, FALSE)
    /\ UNCHANGED <<users, blobs, now, nextId>>
    /\ UNCHANGED ui

\* ------------------------------------------------------------ GET /:id
\* line 250: video.views += 1
incViews(video) == [video EXCEPT !.views = @ + 1]

GetFind(s, v) ==
    /\ req[s].pc = "idle"
    /\ v \in DOMAIN videos => videos[v].views < MaxViews
    /\ req' = [req EXCEPT ![s] =
         IF v \notin DOMAIN videos
         THEN notFoundReply(Arrive("get", Anon, v))
         ELSE [Arrive("get", Anon, v) EXCEPT
                 !.pc = "save",
                 !.doc = incViews(videos[v])]]
    /\ pair' = PairArrive(v)
    /\ UNCHANGED <<store, now, nextId>>
    /\ UNCHANGED ui

\* a bug: the save resets the counter
GetSaveWrite_zero(r) == [videos EXCEPT ![r.vid].views = 0]

\* a bug: the incremented count is returned and never saved
GetSaveWrite_skip(r) == videos

\* video.save() of the fetch: $set of views, rejected when no document matches
GetSaveWrite(r) == [videos EXCEPT ![r.vid].views = r.doc.views]

GetSave(s) ==
    LET r == req[s] IN
    /\ r.op = "get" /\ r.pc = "save"
    /\ IF r.vid \in DOMAIN videos
       THEN /\ videos' = GetSaveWrite(r)
            /\ req' = [req EXCEPT ![s] =
                 Reply(r, 200, [NoBody EXCEPT !.views = r.doc.views])]
       ELSE /\ videos' = videos
            /\ req' = [req EXCEPT ![s] = ReplyCatch(r, "nomatch")]
    /\ UNCHANGED <<users, blobs, now, nextId, pair>>
    /\ UNCHANGED ui

\* ---------------------------------------------------------- DELETE /:id
\* a bug: the ownership check lets every caller through
isOwner_always(video, u) == TRUE

\* line 284: the caller owns the video
isOwner(video, u) == video.uploader = u

\* line 289
isCloudinaryHosted(video) == Includes(video.videoUrl, CLOUDINARY_COM)

DeleteFind(s, u, v) ==
    /\ req[s].pc = "idle"
    /\ req' = [req EXCEPT ![s] =
         IF v \notin DOMAIN videos
         THEN notFoundReply(Arrive("delete", u, v))
         ELSE IF ~isOwner(videos[v], u)
         THEN notOwnerReply(Arrive("delete", u, v))
         ELSE [Arrive("delete", u, v) EXCEPT
                 !.pc = IF isCloudinaryHosted(videos[v]) THEN "destroy" ELSE "dbdelete",
                 !.doc = videos[v]]]
    /\ pair' = PairArrive(v)
    /\ UNCHANGED <<store, now, nextId>>
    /\ UNCHANGED ui

\* cloudinary.uploader.destroy resolves
DeleteDestroy(s) ==
    LET r == req[s] IN
    /\ r.op = "delete" /\ r.pc = "destroy"
    /\ blobs' = blobs \ {r.doc.cloudinaryId}
    /\ req' = [req EXCEPT ![s].pc = "dbdelete"]
    /\ UNCHANGED <<videos, users, now, nextId, pair>>
    /\ UNCHANGED ui

\* a bug: the blob-store error is not caught apart and ends the request
afterDestroyError_rethrow(r) == ReplyCatch([r EXCEPT !.blobErr = TRUE], "rejected")

\* lines 292-295: cloudinary.uploader.destroy rejects, the error is logged
afterDestroyError(r) == [r EXCEPT !.pc = "dbdelete", !.blobErr = TRUE]

DeleteDestroyFail(s) ==
    LET r == req[s] IN
    /\ r.op = "delete" /\ r.pc = "destroy"
    /\ req' = [req EXCEPT ![s] = afterDestroyError(r)]
    /\ UNCHANGED <<store, now, nextId, pair>>
    /\ UNCHANGED ui

\* a bug: the record deletion is left out
DeleteRecordWrite_skip(r) == videos

\* Video.findByIdAndDelete
DeleteRecordWrite(r) == [w \in DOMAIN videos \ {r.vid} |-> videos[w]]

DeleteRecord(s) ==
    LET r == req[s] IN
    /\ r.op = "delete" /\ r.pc = "dbdelete"
    /\ videos' = DeleteRecordWrite(r)
    /\ req' = [req EXCEPT ![s].pc = "pull"]
    /\ UNCHANGED <<users, blobs, now, nextId, pair>>
    /\ UNCHANGED ui

\* User.findByIdAndUpdate(req.user._id, {$pull: {videos: id}})
DeletePullWrite(r) ==
    [users EXCEPT ![r.user] = SelectSeq(@, LAMBDA id : id # r.vid)]

DeletePull(s) ==
    LET r == req[s] IN
    /\ r.op = "delete" /\ r.pc = "pull"
    /\ users' = DeletePullWrite(r)
    /\ req' = [req EXCEPT ![s] = Reply(r, 200, NoBody)]
    /\ UNCHANGED <<videos, blobs, now, nextId, pair>>
    /\ UNCHANGED ui

\* ------------------------------------- POST /upload and POST /upload-link
\* upload.single('video') has stored the file, or the request carries none
UploadBegin(s, u, hasFile, body) ==
    /\ req[s].pc = "idle"
    /\ hasFile => nextId <= MaxVideos
    /\ IF ~hasFile
       THEN /\ req' = [req EXCEPT ![s] = badRequestReply(Arrive("upload", u, 0))]
            /\ UNCHANGED <<blobs, nextId>>
       ELSE /\ blobs' = blobs \cup {FileName(nextId)}
            /\ req' = [req EXCEPT ![s] =
                 [Arrive("upload", u, nextId) EXCEPT
                    !.pc = "save", !.url = FilePath(nextId),
                    !.doc = withBody(FileDoc(u, nextId, now), body)]]
            /\ nextId' = nextId + 1
    /\ UNCHANGED <<videos, users, now, pair>>
    /\ UNCHANGED ui

\* the storage engine rejects: multer passes the error to next(), the route
\* handler and its try/catch never run, Express answers
UploadStorageFail(s, u) ==
    /\ req[s].pc = "idle"
    /\ req' = [req EXCEPT ![s] =
         [Reply(Arrive("upload", u, 0), 500, NoBody) EXCEPT
            !.by = "express", !.err = "rejected"]]
    /\ UNCHANGED <<store, now, nextId, pair>>
    /\ UNCHANGED ui

\* a bug: the URL is not validated, only required
linkIsRejected_missingOnly(videoUrl) == videoUrl = Null \/ videoUrl = <<>>

\* lines 165-174: videoUrl is missing, or new URL(videoUrl) throws
linkIsRejected(videoUrl) ==
    videoUrl = Null \/ videoUrl = <<>> \/ ~IsValidUrl(videoUrl)

UploadLinkBegin(s, u, videoUrl, body) ==
    /\ req[s].pc = "idle"
    /\ ~linkIsRejected(videoUrl) => nextId <= MaxVideos
    /\ IF linkIsRejected(videoUrl)
       THEN /\ req' = [req EXCEPT ![s] =
                 badRequestReply([Arrive("uploadLink", u, 0) EXCEPT
                                    !.url = videoUrl])]
            /\ UNCHANGED nextId
       ELSE /\ req' = [req EXCEPT ![s] =
                 [Arrive("uploadLink", u, nextId) EXCEPT
                    !.pc = "save", !.url = videoUrl,
                    !.doc = withBody(LinkDoc(u, videoUrl, now), body)]]
            /\ nextId' = nextId + 1
    /\ UNCHANGED <<store, now, pair>>
    /\ UNCHANGED ui

\* video.save() of a new document: an insert
VideoSaveWrite(r) ==
    [w \in DOMAIN videos \cup {r.vid} |-> IF w = r.vid THEN r.doc ELSE videos[w]]

\* the schema's validators: title is required (an empty string does not do)
isValidDoc(doc) == doc.title # <<>>

\* await video.save(): a document that fails validation rejects the save
VideoSave(s) ==
    LET r == req[s] IN
    /\ r.op \in {"upload", "uploadLink"} /\ r.pc = "save"
    /\ IF isValidDoc(r.doc)
       THEN /\ videos' = VideoSaveWrite(r)
            /\ req' = [req EXCEPT ![s].pc = "push"]
       ELSE /\ videos' = videos
            /\ req' = [req EXCEPT ![s] = ReplyCatch(r, "invalid")]
    /\ UNCHANGED <<users, blobs, now, nextId, pair>>
    /\ UNCHANGED ui

\* User.findByIdAndUpdate(req.user._id, {$push: {videos: video._id}})
UserPushWrite(r) == [users EXCEPT ![r.user] = Append(@, r.vid)]

UserPush(s) ==
    LET r == req[s] IN
    /\ r.op \in {"upload", "uploadLink"} /\ r.pc = "push"
    /\ users' = UserPushWrite(r)
    /\ req' = [req EXCEPT ![s].pc = "populate"]
    /\ UNCHANGED <<videos, blobs, now, nextId, pair>>
    /\ UNCHANGED ui

\* video.populate(...) resolves, res.status(201).json(video)
UploadPopulate(s) ==
    LET r == req[s] IN
    /\ r.op \in {"upload", "uploadLink"} /\ r.pc = "populate"
    /\ req' = [req EXCEPT ![s] = Reply(r, 201, NoBody)]
    /\ UNCHANGED <<store, now, nextId, pair>>
    /\ UNCHANGED ui

\* ---------------------------------------------------------------- GET /
\* a bug: the listing query has no visibility filter
matching_all(vs) == DOMAIN vs

\* query = { isPrivate: false }
matching(vs) == {v \in DOMAIN vs : ~vs[v].isPrivate}

Uppers == <<"A","B","C","D","E","F","G","H","I","J","K","L","M","N","O","P","Q",
           "R","S","T","U","V","W","X","Y","Z">>
Lowers == <<"a","b","c","d","e","f","g","h","i","j","k","l","m","n","o","p","q",
           "r","s","t","u","v","w","x","y","z">>

\* the case folding of the regular expression option 'i'
Lower(c) == IF \E i \in 1..26 : Uppers[i] = c
            THEN Lowers[CHOOSE i \in 1..26 : Uppers[i] = c] ELSE c

\* the search string is compiled as a regular expression.  Of the syntax of
\* regular expressions the searches asked here use ordinary characters, the
\* dot (any one character) and the opening parenthesis, which without its
\* closing one is a syntax error that the database refuses.
IsValidRegex(search) == \A i \in 1..Len(search) : search[i] # "("

\* { $regex: search, $options: 'i' } on a string field: a match anywhere
RegexTest(search, str) ==
    \E i \in 1..(Len(str) - Len(search) + 1) :
       \A k \in 1..Len(search) :
          search[k] = "." \/ Lower(search[k]) = Lower(str[i + k - 1])

\* lines 212-218: the $or of title, description and any tag
searchHits(video, search) ==
    \/ RegexTest(search, video.title)
    \/ RegexTest(search, video.description)
    \/ \E i \in 1..Len(video.tags) : RegexTest(search, video.tags[i])

\* lines 210-218: the documents the query of a listing selects
queryMatches(vs, search) ==
    IF search = Null \/ search = <<>> THEN matching(vs)
    ELSE {v \in matching(vs) : searchHits(vs[v], search)}

\* .sort({ createdAt: -1 }): the orders the sort may produce (the order of
\* documents with equal createdAt is not determined)
SortedOrders(vs, S) ==
    {o \in [1..Cardinality(S) -> S] :
       /\ \A i, j \in 1..Cardinality(S) : i # j => o[i] # o[j]
       /\ \A i, j \in 1..Cardinality(S) :
            i < j => vs[o[i]].createdAt >= vs[o[j]].createdAt}

Min(a, b) == IF a < b THEN a ELSE b

\* a bug: pages are counted from 0, .skip(page * limit)
skipLimit_fromZero(o, page, limit) ==
    SubSeq(o, page * limit + 1, Min(Len(o), page * limit + limit))

\* .limit(limit * 1).skip((page - 1) * limit)
skipLimit(o, page, limit) ==
    SubSeq(o, (page - 1) * limit + 1, Min(Len(o), (page - 1) * limit + limit))

\* Math.ceil(total / limit)
ceilDiv(total, limit) == (total + limit - 1) \div limit

\* the handler of GET /, up to the reply of Video.find
ListFindCall(s, page, limit, search) ==
    /\ req[s].pc = "idle"
    /\ IF search # Null /\ ~IsValidRegex(search)
       THEN req' = [req EXCEPT ![s] =
              ReplyCatch([Arrive("list", Anon, 0) EXCEPT
                            !.page = page, !.limit = limit, !.search = search],
                         "regex")]
       ELSE \E o \in SortedOrders(videos, queryMatches(videos, search)) :
              req' = [req EXCEPT ![s] =
                [Arrive("list", Anon, 0) EXCEPT
                   !.pc = "count", !.page = page, !.limit = limit,
                   !.search = search,
                   !.body = [NoBody EXCEPT !.videos = skipLimit(o, page, limit)]]]
    /\ UNCHANGED <<store, now, nextId, pair>>

ListFind(s, page, limit, search) ==
    /\ ListFindCall(s, page, limit, search)
    /\ UNCHANGED ui

\* Video.countDocuments(query), res.json
ListCount(s) ==
    LET r == req[s] IN
    /\ r.op = "list" /\ r.pc = "count"
    /\ req' = [req EXCEPT ![s] =
         Reply(r, 200, [r.body EXCEPT
           !.totalPages =
              ceilDiv(Cardinality(queryMatches(videos, r.search)), r.limit)])]
    /\ UNCHANGED <<store, now, nextId, pair>>
    /\ UNCHANGED ui

\* ------------------------------------------------------- failures, replies
\* an awaited database call rejects: the catch block answers 500
\* a variant: the catch block of an upload takes back the record it had saved
videosAfterFault_rollback(r) ==
    IF r.pc = "push" THEN [w \in DOMAIN videos \ {r.vid} |-> videos[w]] ELSE videos

\* the catch blocks log and answer: what was written before the failure stays
videosAfterFault(r) == videos

DbFault(s) ==
    LET r == req[s] IN
    /\ r.pc \in {"save", "push", "populate", "dbdelete", "pull", "count"}
    /\ req' = [req EXCEPT ![s] = ReplyCatch(r, "rejected")]
    /\ pair' = IF r.op = "like" THEN PairLikeDone(r, FALSE) ELSE pair
    /\ videos' = videosAfterFault(r)
    /\ UNCHANGED <<users, blobs, now, nextId>>
    /\ UNCHANGED ui

\* the first database call of a handler (findById, find) rejects
FindFault(s, op, u, v) ==
    /\ req[s].pc = "idle"
    /\ req' = [req EXCEPT ![s] = ReplyCatch(Arrive(op, u, v), "rejected")]
    /\ pair' = PairArrive(v)
    /\ UNCHANGED <<store, now, nextId>>
    /\ UNCHANGED ui

\* the reply leaves; the slot takes the next request
Deliver(s) ==
    /\ req[s].pc = "respond"
    /\ req' = [req EXCEPT ![s] = Idle]
    /\ UNCHANGED <<store, now, nextId, pair>>

Respond(s) ==
    /\ Deliver(s)
    /\ UNCHANGED ui

Tick ==
    /\ now < MaxTime
    /\ now' = now + 1
    /\ UNCHANGED <<store, nextId, req, pair>>
    /\ UNCHANGED ui

\* ------------------------------------------------------------ the browser
\* VideoPlayer (the component that follows the schema in Video.js)
DRIVE_EMBED ==
    <<"h","t","t","p","s",":","/","/","d","r","i","v","e",".","g","o",
      "o","g","l","e",".","c","o","m","/","f","i","l","e","/","d","/">>

PREVIEW == <<"/","p","r","e","v","i","e","w">>

\* src.includes('drive.google.com')
isGoogleDriveVideo(src) == Includes(src, DRIVE_GOOGLE_COM)

\* the file id the embed URL is built from: the query pattern is tried first
\* and returns, the path pattern is tried only when it did not match
embedFileId(url) ==
    IF MatchIdParam(url) # Null THEN MatchIdParam(url) ELSE MatchFilePath(url)

getDriveEmbedUrl(url) ==
    IF embedFileId(url) # Null THEN DRIVE_EMBED \o embedFileId(url) \o PREVIEW
    ELSE url

\* the native player's handlers return at once when the iframe is shown
IsNative == player.mounted /\ ~isGoogleDriveVideo(player.src)

server == <<store, now, nextId, req, pair>>

\* the watch page renders <VideoPlayer src={video.videoUrl}> for the video it
\* fetched; videoUrl is never rewritten, so it is read from the record
PlayerMount(v) ==
    /\ ~player.mounted
    /\ v \in DOMAIN videos
    /\ player' = [NoPlayer EXCEPT
         !.mounted = TRUE,
         !.src = videos[v].videoUrl,
         !.embedUrl = IF isGoogleDriveVideo(videos[v].videoUrl)
                      THEN getDriveEmbedUrl(videos[v].videoUrl) ELSE Null]
    /\ UNCHANGED <<server, home>>

\* the page is left: state and media element are gone, and a state setter
\* called by a timer that is still armed does nothing
PlayerUnmount ==
    /\ player.mounted
    /\ player' = NoPlayer
    /\ UNCHANGED <<server, home>>

\* togglePlay: video.play() either starts playback or returns a promise that
\* rejects (the catch sets the error message) with the element still paused;
\* setIsPlaying(true) is called in both cases
togglePlay ==
    /\ IsNative
    /\ IF player.paused
       THEN \E started \in BOOLEAN :
              player' = [player EXCEPT !.paused = ~started, !.isPlaying = TRUE]
       ELSE player' = [player EXCEPT !.paused = TRUE, !.isPlaying = FALSE]
    /\ UNCHANGED <<server, home>>

\* onPlay: the element starts playing without togglePlay (media keys, the
\* browser's own menu)
onPlay ==
    /\ IsNative
    /\ player.paused
    /\ player' = [player EXCEPT !.paused = FALSE, !.isPlaying = TRUE]
    /\ UNCHANGED <<server, home>>

\* onPause: the element pauses without togglePlay (the end of the media is
\* reached, media keys)
onPause ==
    /\ IsNative
    /\ ~player.paused
    /\ player' = [player EXCEPT !.paused = TRUE, !.isPlaying = FALSE]
    /\ UNCHANGED <<server, home>>

handleVolumeChange(newVolume) ==
    /\ IsNative
    /\ player' = [player EXCEPT !.volume = newVolume, !.elVolume = newVolume,
                                !.isMuted = (newVolume = 0)]
    /\ UNCHANGED <<server, home>>

toggleMute ==
    /\ IsNative
    /\ IF player.isMuted
       THEN player' = [player EXCEPT !.elVolume = player.volume, !.isMuted = FALSE]
       ELSE player' = [player EXCEPT !.elVolume = 0, !.isMuted = TRUE]
    /\ UNCHANGED <<server, home>>

\* onMouseMove: the controls are shown, the pending timeout is cleared and a
\* new one is armed whose callback closes over the isPlaying of this render
showControlsTemporarily ==
    /\ IsNative
    /\ player' = [player EXCEPT
         !.showControls = TRUE,
         !.timer = IF player.isPlaying THEN "playing" ELSE "paused"]
    /\ UNCHANGED <<server, home>>

\* the 3000 ms timeout fires: if (isPlaying) setShowControls(false), with the
\* isPlaying it closed over
hideTimerFires ==
    /\ IsNative
    /\ player.timer # "none"
    /\ player' = [player EXCEPT
         !.timer = "none",
         !.showControls = IF player.timer = "playing" THEN FALSE ELSE @]
    /\ UNCHANGED <<server, home>>

\* onMouseLeave={() => isPlaying && setShowControls(false)}
onMouseLeave ==
    /\ IsNative
    /\ player' = [player EXCEPT
         !.showControls = IF player.isPlaying THEN FALSE ELSE @]
    /\ UNCHANGED <<server, home>>

\* Home
\* `?search=${searchQuery}` when searchQuery is not empty, nothing otherwise
\* (the queries of Searches hold no character a URL gives a meaning to)
homeSearchParam(searchQuery) == IF searchQuery = <<>> THEN Null ELSE searchQuery

\* fetchVideos up to its await: setLoading(true) and the GET is sent (page and
\* limit are left to the server's defaults)
fetchVideos(s, searchQuery) ==
    /\ ListFindCall(s, 1, DefaultLimit, homeSearchParam(searchQuery))
    /\ home' = [home EXCEPT
         !.mounted = TRUE, !.searchQuery = searchQuery, !.loading = TRUE,
         !.pending = @ \cup {s}, !.sent = @ + 1]
    /\ UNCHANGED player

\* the page is opened at /?search=q: the effect runs once
HomeMount(s, q) ==
    /\ ~home.mounted
    /\ fetchVideos(s, q)

\* the search parameter of the location changes: the effect runs again, the
\* requests already sent stay in flight
HomeNavigate(s, q) ==
    /\ home.mounted
    /\ q # home.searchQuery
    /\ home.sent < MaxFetches
    /\ fetchVideos(s, q)

\* fetchVideos after its await: setVideos(response.data.videos) for a 2xx
\* reply, the catch block for any other; finally setLoading(false)
HomeReceive(s) ==
    /\ s \in home.pending
    /\ Deliver(s)
    /\ home' = [home EXCEPT
         !.videos = IF req[s].status = 200 THEN req[s].body.videos ELSE @,
         !.loading = FALSE,
         !.pending = @ \ {s}]
    /\ UNCHANGED player

\* -------------------------------------------------------- specifications
LikeSteps ==
    \/ \E s \in Slots, u \in Users, v \in VideoIds : LikeFind(s, u, v)
    \/ \E s \in Slots : LikeSave(s)

GetSteps ==
    \/ \E s \in Slots, v \in VideoIds : GetFind(s, v)
    \/ \E s \in Slots : GetSave(s)

DeleteSteps ==
    \/ \E s \in Slots, u \in Users, v \in VideoIds : DeleteFind(s, u, v)
    \/ \E s \in Slots : DeleteDestroy(s)
    \/ \E s \in Slots : DeleteRecord(s)
    \/ \E s \in Slots : DeletePull(s)

UploadSteps ==
    \/ \E s \in Slots, u \in Users, hasFile \in BOOLEAN :
         UploadBegin(s, u, hasFile, PlainBody)
    \/ \E s \in Slots, u \in Users, videoUrl \in LinkBodies :
         UploadLinkBegin(s, u, videoUrl, PlainBody)
    \/ \E s \in Slots : VideoSave(s)
    \/ \E s \in Slots : UserPush(s)
    \/ \E s \in Slots : UploadPopulate(s)

ListSteps ==
    \/ \E s \in Slots : ListFind(s, 1, DefaultLimit, Null)
    \/ \E s \in Slots : ListCount(s)

\* uploads, deletes and the listing, with every failure
Next ==
    \/ UploadSteps
    \/ DeleteSteps
    \/ ListSteps
    \/ \E s \in Slots : DeleteDestroyFail(s)
    \/ \E s \in Slots : DbFault(s)
    \/ \E s \in Slots, u \in Users : UploadStorageFail(s, u)
    \/ \E s \in Slots, u \in Users, v \in VideoIds : FindFault(s, "delete", u, v)
    \/ \E s \in Slots : FindFault(s, "list", Anon, 0)
    \/ \E s \in Slots : Respond(s)
    \/ Tick

Spec == Init /\ [][Next]_vars

\* the same requests when no call fails
NextQuiet ==
    \/ UploadSteps
    \/ DeleteSteps
    \/ \E s \in Slots : Respond(s)
    \/ Tick

SpecQuiet == Init /\ [][NextQuiet]_vars

\* likes, fetches and deletes of the videos in the store, with every failure
NextEngage ==
    \/ LikeSteps
    \/ GetSteps
    \/ DeleteSteps
    \/ \E s \in Slots : DeleteDestroyFail(s)
    \/ \E s \in Slots : DbFault(s)
    \/ \E s \in Slots, op \in {"like", "delete"}, u \in Users, v \in VideoIds :
         FindFault(s, op, u, v)
    \/ \E s \in Slots, v \in VideoIds : FindFault(s, "get", Anon, v)
    \/ \E s \in Slots : Respond(s)

SpecEngage == Init /\ [][NextEngage]_vars

\* a catalogue of MaxCatalog files of u1, created in the order of their ids,
\* some of them private, that is listed page by page while its owner and
\* another user send deletes
CatalogIds == 1..MaxCatalog

InitCatalog ==
    /\ \E t \in [CatalogIds -> 0..(MaxCatalog - 1)], p \in [CatalogIds -> BOOLEAN] :
         /\ \A i, j \in CatalogIds : i < j => t[i] <= t[j]
         /\ videos = [n \in CatalogIds |->
                        [withBody(FileDoc("u1", n, t[n]), PlainBody)
                           EXCEPT !.isPrivate = p[n]]]
         /\ now = t[MaxCatalog]
    /\ users = [u \in Users |-> IF u = "u1" THEN [n \in CatalogIds |-> n] ELSE <<>>]
    /\ blobs = {FileName(n) : n \in CatalogIds}
    /\ nextId = MaxCatalog + 1
    /\ req = [s \in Slots |-> Idle]
    /\ pair = NoPair
    /\ home = NoHome
    /\ player = NoPlayer

Limits == {1, 2, DefaultLimit}

NextCatalog ==
    \/ \E s \in Slots, page \in 1..MaxPage, limit \in Limits :
         ListFind(s, page, limit, Null)
    \/ \E s \in Slots : ListCount(s)
    \/ \E s \in Slots, u \in Users, v \in CatalogIds : DeleteFind(s, u, v)
    \/ \E s \in Slots : DeleteDestroy(s)
    \/ \E s \in Slots : DeleteRecord(s)
    \/ \E s \in Slots : DeletePull(s)
    \/ \E s \in Slots : Respond(s)

SpecCatalog == InitCatalog /\ [][NextCatalog]_vars

\* a catalogue of two videos of u1 with the titles, descriptions and tags of
\* SearchSamples, that is searched while its owner and another user send
\* deletes
SearchSamples ==
    {[title |-> <<"C","a","t","s">>,
     description |-> Null,
     tags |-> Null],
     [title |-> <<"d","o","g","s">>,
     description |-> <<"a"," ","c","o","t">>,
     tags |-> Null],
     [title |-> <<"d","o","g","s">>,
     description |-> Null,
     tags |-> <<"p","e","t","s",","," ","C","A","T">>],
     [title |-> <<"c",".","t"," ","(","1",")">>,
     description |-> Null,
     tags |-> Null]}

SearchIds == 1..2

InitSearch ==
    /\ \E b \in [SearchIds -> SearchSamples], p \in [SearchIds -> BOOLEAN] :
         videos = [n \in SearchIds |->
                     [withBody(FileDoc("u1", n, n), b[n]) EXCEPT !.isPrivate = p[n]]]
    /\ users = [u \in Users |-> IF u = "u1" THEN [n \in SearchIds |-> n] ELSE <<>>]
    /\ blobs = {FileName(n) : n \in SearchIds}
    /\ now = MaxTime
    /\ nextId = MaxVideos + 1
    /\ req = [s \in Slots |-> Idle]
    /\ pair = NoPair
    /\ home = NoHome
    /\ player = NoPlayer

\* req.query.search
Searches ==
    {<<"c","a","t">>,
     <<"C","A","T">>,
     <<"c",".","t">>,
     <<"(">>,
     <<"p","e","t","s">>,
     <<>>}

NextSearch ==
    \/ \E s \in Slots, search \in Searches : ListFind(s, 1, DefaultLimit, search)
    \/ \E s \in Slots : ListCount(s)
    \/ \E s \in Slots, u \in Users, v \in SearchIds : DeleteFind(s, u, v)
    \/ \E s \in Slots : DeleteDestroy(s)
    \/ \E s \in Slots : DeleteRecord(s)
    \/ \E s \in Slots : DeletePull(s)
    \/ \E s \in Slots : Respond(s)

SpecSearch == InitSearch /\ [][NextSearch]_vars

\* an empty database that takes the uploads of two users, files and links,
\* with the tag strings of SubmitBodies, while calls fail and time passes
InitEmpty ==
    /\ videos = <<>>
    /\ users = [u \in Users |-> <<>>]
    /\ blobs = {}
    /\ now = 0
    /\ nextId = 1
    /\ req = [s \in Slots |-> Idle]
    /\ pair = NoPair
    /\ home = NoHome
    /\ player = NoPlayer

\* req.body.tags
TagStrings ==
    {Null,
     <<"a",",",",","b">>,
     <<" ","a"," ",","," ","b">>,
     <<"a",",">>}

SubmitBodies ==
    {[PlainBody EXCEPT !.tags = t] : t \in TagStrings}
    \cup {[PlainBody EXCEPT !.title = Null]}

SubmitUrls == {UrlDirect, UrlYoutuBe, UrlDriveShare}

NextSubmit ==
    \/ \E s \in Slots, u \in Users, body \in SubmitBodies :
         UploadBegin(s, u, TRUE, body)
    \/ \E s \in Slots, u \in Users, videoUrl \in SubmitUrls, body \in SubmitBodies :
         UploadLinkBegin(s, u, videoUrl, body)
    \/ \E s \in Slots : VideoSave(s)
    \/ \E s \in Slots : UserPush(s)
    \/ \E s \in Slots : UploadPopulate(s)
    \/ \E s \in Slots : DbFault(s)
    \/ \E s \in Slots : Respond(s)
    \/ Tick

SpecSubmit == InitEmpty /\ [][NextSubmit]_vars

\* the database of Init takes one link upload, its URL put together from a
\* host, a path and a query string
HTTPS == <<"h","t","t","p","s",":","/","/">>

LinkHosts ==
    {<<"x",".","i","o">>,
     <<"d","r","i","v","e",".","g","o","o","g","l","e",".","c","o","m">>,
     <<"w","w","w",".","y","o","u","t","u","b","e",".","c","o","m">>,
     <<"y","o","u","t","u",".","b","e">>,
     <<"v","i","m","e","o",".","c","o","m">>,
     <<"r","e","s",".","c","l","o","u","d","i","n","a","r","y",".","c",
       "o","m">>}

LinkPaths ==
    {<<"/","a",".","m","p","4">>,
     <<"/","f","i","l","e","/","d","/","D","1","/","v","i","e","w">>,
     <<"/","w","a","t","c","h">>,
     <<"/","a","b","c","1","2","3">>,
     <<"/","v","i","d","e","o","/","u","p","l","o","a","d","/","f","1",
       ".","m","p","4">>}

LinkQueries ==
    {<<>>,
     <<"?","t","=","5">>,
     <<"?","i","d","=","D","2">>,
     <<"?","v","=","a","b","c","1","2","3">>,
     <<"?","v","=","a","b","c","1","2","3","&","t","=","5">>,
     <<"?","u","=","y","o","u","t","u",".","b","e","/","z","z">>}

ClassifiedUrls ==
    {HTTPS \o h \o pa \o qu : h \in LinkHosts, pa \in LinkPaths, qu \in LinkQueries}

NextLinks ==
    \/ \E s \in Slots, u \in Users, videoUrl \in ClassifiedUrls :
         UploadLinkBegin(s, u, videoUrl, PlainBody)
    \/ \E s \in Slots : VideoSave(s)
    \/ \E s \in Slots : UserPush(s)
    \/ \E s \in Slots : UploadPopulate(s)
    \/ \E s \in Slots : Respond(s)
    \/ Tick
    \/ \E v \in VideoIds : PlayerMount(v)
    \/ PlayerUnmount

SpecLinks == Init /\ [][NextLinks]_vars

\* every kind of request on the database of Init, no call failing: one more
\* file upload, and on each video one fetch and one like, listings and deletes
NextOwner ==
    \/ \E s \in Slots, u \in Users : UploadBegin(s, u, TRUE, PlainBody)
    \/ \E s \in Slots : VideoSave(s)
    \/ \E s \in Slots : UserPush(s)
    \/ \E s \in Slots : UploadPopulate(s)
    \/ \E s \in Slots, u \in Users, v \in VideoIds :
         (v \in DOMAIN videos => videos[v].v < 1) /\ LikeFind(s, u, v)
    \/ \E s \in Slots : LikeSave(s)
    \/ \E s \in Slots, v \in VideoIds :
         (v \in DOMAIN videos => videos[v].views < 1) /\ GetFind(s, v)
    \/ \E s \in Slots : GetSave(s)
    \/ DeleteSteps
    \/ ListSteps
    \/ \E s \in Slots : Respond(s)

SpecOwner == Init /\ [][NextOwner]_vars

\* the native player on the video of Init
NextPlayer ==
    \/ \E v \in VideoIds : PlayerMount(v)
    \/ PlayerUnmount
    \/ togglePlay
    \/ onPlay
    \/ onPause
    \/ \E n \in 0..MaxVolume : handleVolumeChange(n)
    \/ toggleMute
    \/ showControlsTemporarily
    \/ hideTimerFires
    \/ onMouseLeave

SpecPlayer == Init /\ [][NextPlayer]_vars

\* Home on the catalogue of InitSearch: the page is opened and the search is
\* changed while replies are still on their way
NextHome ==
    \/ \E s \in Slots, q \in Searches : HomeMount(s, q)
    \/ \E s \in Slots, q \in Searches : HomeNavigate(s, q)
    \/ \E s \in Slots : ListCount(s)
    \/ \E s \in Slots : HomeReceive(s)

SpecHome == InitSearch /\ [][NextHome]_vars

\* ================================================================ claims
\* the step in which the handler of slot s produces its reply
Answers(s) == req[s].pc # "respond" /\ req'[s].pc = "respond"

\* the user's videos array holds the id
Lists(u, v) == \E i \in 1..Len(users[u]) : users[u][i] = v

\* C1: a DELETE /videos/:id whose caller is not the stored uploader of the
\* video is answered at once, with 403 unless the lookup itself was refused
\* by the database, and writes nothing: videos, users' lists and blobs stay.
C1_NonOwnerDeleteRejected ==
    [][\A s \in Slots :
         (/\ req[s].pc = "idle"
          /\ req'[s].op = "delete"
          /\ req'[s].vid \in DOMAIN videos
          /\ videos[req'[s].vid].uploader # req'[s].user)
         => (/\ req'[s].pc = "respond"
             /\ (req'[s].err # "rejected" => req'[s].status = 403)
             /\ videos' = videos /\ users' = users /\ blobs' = blobs)]_vars

C1_Witness ==
    \E s \in Slots :
       /\ req[s].op = "delete" /\ req[s].pc = "respond" /\ req[s].status = 403
       /\ req[s].vid \in DOMAIN videos
       /\ videos[req[s].vid].uploader # req[s].user
       /\ Lists(videos[req[s].vid].uploader, req[s].vid)
       /\ videos[req[s].vid].cloudinaryId \in blobs

\* C2: no user reference occurs twice in the likes of a video, whatever the
\* interleaving of like requests.
C2_LikesUnique ==
    \A v \in DOMAIN videos :
       \A i, j \in 1..Len(videos[v].likes) :
          i # j => videos[v].likes[i] # videos[v].likes[j]

Range(q) == {q[i] : i \in 1..Len(q)}

\* C3: two consecutive successful like requests of one user on one video,
\* with no other request on the video in between, leave the set of likes and
\* its count as they were before the first.
C3_LikeTwiceRestores ==
    pair.n = 4 =>
       /\ pair.vid \in DOMAIN videos
       /\ Range(videos[pair.vid].likes) = Range(pair.likes0)
       /\ Len(videos[pair.vid].likes) = Len(pair.likes0)

\* C4: a DELETE /videos/:id is answered with success only out of the owner-list
\* update, with the record gone from the store and its reference gone from the
\* owner's list; a delete whose record deletion or list update was refused is
\* answered 500.
C4_DeleteSuccessMeansBothWrites ==
    [][\A s \in Slots :
         (Answers(s) /\ req'[s].op = "delete")
         => /\ req'[s].status = 200
                => (/\ req[s].pc = "pull"
                    /\ req'[s].vid \notin DOMAIN videos'
                    /\ \A i \in 1..Len(users'[req'[s].user]) :
                          users'[req'[s].user][i] # req'[s].vid)
            /\ (req[s].pc \in {"dbdelete", "pull"} /\ req'[s].err = "rejected")
                => req'[s].status = 500]_vars

C4_Witness ==
    \E s \in Slots :
       /\ req[s].op = "delete" /\ req[s].pc = "respond" /\ req[s].status = 200
       /\ req[s].vid \notin DOMAIN videos
       /\ ~Lists(req[s].user, req[s].vid)

\* C5: when the blob-store delete of an owner's delete fails, the handler goes
\* on to the record deletion; and such a request, unless a database call is
\* refused, is answered with success, the record deleted and the reference
\* pulled from the owner's list.
C5_BlobFailureDoesNotBlock ==
    [][\A s \in Slots :
         /\ (req[s].pc = "destroy" /\ req'[s] # req[s] /\ req'[s].blobErr)
               => req'[s].pc = "dbdelete"
         /\ (Answers(s) /\ req'[s].op = "delete" /\ req'[s].blobErr
               /\ req'[s].err # "rejected")
               => (/\ req'[s].status = 200
                   /\ req'[s].vid \notin DOMAIN videos'
                   /\ \A i \in 1..Len(users'[req'[s].user]) :
                         users'[req'[s].user][i] # req'[s].vid)]_vars

C5_Witness ==
    \E s \in Slots :
       /\ req[s].op = "delete" /\ req[s].pc = "respond" /\ req[s].status = 200
       /\ req[s].blobErr
       /\ req[s].vid \notin DOMAIN videos
       /\ ~Lists(req[s].user, req[s].vid)
       /\ FileName(req[s].vid) \in blobs

C7_ListsInSync ==
    (\A s \in Slots : req[s].pc \in {"idle", "respond"})
    => \A u \in Users :
          Range(users[u]) = {v \in DOMAIN videos : videos[v].uploader = u}

\* C8 as stated: every successful fetch raises the stored counter by one and
\* returns the raised count.
C8_EveryFetchAddsOne ==
    [][\A s \in Slots :
         (Answers(s) /\ req'[s].op = "get" /\ req'[s].status = 200)
         => (/\ videos'[req'[s].vid].views = videos[req'[s].vid].views + 1
             /\ req'[s].body.views = videos'[req'[s].vid].views)]_vars

\* C8 as amended: a fetch computes the count it read plus one, and when its
\* save succeeds it stores that count and returns it, whatever isPrivate is;
\* when the stored count is still the one it read, the save raises it by one.
C8_FetchStoresReadPlusOne ==
    [][\A s \in Slots :
         /\ (req[s].pc = "idle" /\ req'[s].op = "get" /\ req'[s].pc = "save")
               => req'[s].doc.views = videos[req'[s].vid].views + 1
         /\ (Answers(s) /\ req'[s].op = "get" /\ req'[s].status = 200)
               => (/\ req[s].pc = "save"
                   /\ videos'[req'[s].vid].views = req[s].doc.views
                   /\ req'[s].body.views = req[s].doc.views
                   /\ (videos[req'[s].vid].views + 1 = req[s].doc.views
                         => videos'[req'[s].vid].views
                              = videos[req'[s].vid].views + 1))]_vars

\* the second of two fetches of a private video, one after the other
C8_Witness ==
    \E s \in Slots :
       /\ req[s].op = "get" /\ req[s].pc = "respond" /\ req[s].status = 200
       /\ req[s].body.views = 2
       /\ req[s].vid \in DOMAIN videos
       /\ videos[req[s].vid].views = 2
       /\ videos[req[s].vid].isPrivate

\* C9: GET /videos returns stored videos that are not private, in an order of
\* non-increasing creation time, and no step of the request writes a video,
\* a user's list or a blob.
C9_ListPublicSortedReadOnly ==
    [][\A s \in Slots :
         /\ (req'[s] # req[s] /\ req'[s].op = "list")
               => (videos' = videos /\ users' = users /\ blobs' = blobs)
         /\ (req[s].pc = "idle" /\ req'[s].op = "list" /\ req'[s].pc = "count")
               => LET got == req'[s].body.videos IN
                  /\ \A i \in 1..Len(got) :
                        got[i] \in DOMAIN videos /\ ~videos[got[i]].isPrivate
                  /\ \A i, j \in 1..Len(got) :
                        i < j => videos[got[i]].createdAt >= videos[got[j]].createdAt
         /\ (req[s].pc = "count" /\ Answers(s) /\ req'[s].status = 200)
               => req'[s].body.videos = req[s].body.videos]_vars

\* a listing of two videos of different age while a private video is stored
C9_Witness ==
    \E s \in Slots :
       /\ req[s].op = "list" /\ req[s].pc = "respond" /\ req[s].status = 200
       /\ Len(req[s].body.videos) = 2
       /\ \A i \in 1..2 : req[s].body.videos[i] \in DOMAIN videos
       /\ videos[req[s].body.videos[1]].createdAt
            > videos[req[s].body.videos[2]].createdAt
       /\ \E v \in DOMAIN videos : videos[v].isPrivate

\* videos of S created later than v, and not earlier than v
Newer(S, v)   == {w \in S : videos[w].createdAt > videos[v].createdAt}
NotOlder(S, v) == {w \in S : videos[w].createdAt >= videos[v].createdAt}

\* C10: page p of size l holds the public videos of ranks (p-1)*l+1 .. p*l by
\* creation time, newest first, as many as there are; totalPages is the least
\* number of pages of size l that hold all the public videos counted.
C10_PageAndTotalPages ==
    [][\A s \in Slots :
         /\ (req[s].pc = "idle" /\ req'[s].op = "list" /\ req'[s].pc = "count")
               => LET got  == req'[s].body.videos
                      M    == matching(videos)
                      skip == (req'[s].page - 1) * req'[s].limit
                  IN
                  /\ Len(got) = IF Cardinality(M) <= skip THEN 0
                                ELSE IF Cardinality(M) - skip < req'[s].limit
                                THEN Cardinality(M) - skip
                                ELSE req'[s].limit
                  /\ \A i, j \in 1..Len(got) : i # j => got[i] # got[j]
                  /\ \A i \in 1..Len(got) :
                        /\ got[i] \in M
                        /\ Cardinality(Newer(M, got[i])) <= skip + i - 1
                        /\ Cardinality(NotOlder(M, got[i])) >= skip + i
         /\ (req[s].pc = "count" /\ Answers(s) /\ req'[s].status = 200)
               => LET k == req'[s].body.totalPages
                      n == Cardinality(matching(videos))
                  IN
                  /\ k >= 0
                  /\ k * req'[s].limit >= n
                  /\ k > 0 => (k - 1) * req'[s].limit < n
                  /\ req'[s].body.videos = req[s].body.videos]_vars

\* three public videos of three ages, page 2 of size 1: the second newest
\* video and totalPages = 3
C10_Witness ==
    \E s \in Slots :
       /\ req[s].op = "list" /\ req[s].pc = "respond" /\ req[s].status = 200
       /\ req[s].page = 2 /\ req[s].limit = 1
       /\ Cardinality(matching(videos)) = 3
       /\ \A v, w \in matching(videos) :
             v # w => videos[v].createdAt # videos[w].createdAt
       /\ Len(req[s].body.videos) = 1
       /\ Cardinality(Newer(matching(videos), req[s].body.videos[1])) = 1
       /\ req[s].body.totalPages = 3

\* the search string occurs in str as it is written, letter case ignored
LiteralOccurs(search, str) ==
    \E i \in 1..(Len(str) - Len(search) + 1) :
       \A k \in 1..Len(search) : Lower(search[k]) = Lower(str[i + k - 1])

LiteralHits(video, search) ==
    \/ LiteralOccurs(search, video.title)
    \/ LiteralOccurs(search, video.description)
    \/ \E i \in 1..Len(video.tags) : LiteralOccurs(search, video.tags[i])

\* C11: a GET /videos with a search string (first page, a limit above the
\* number of videos) returns exactly the public videos in whose title,
\* description or tags the search string occurs literally, case ignored (a
\* request answered with an error returns no video).
C11_SearchIsLiteralSubstring ==
    [][\A s \in Slots :
         (/\ req[s].pc = "idle"
          /\ req'[s].op = "list"
          /\ req'[s].search # Null /\ req'[s].search # <<>>)
         => (IF req'[s].pc = "count" THEN Range(req'[s].body.videos) ELSE {})
              = {v \in DOMAIN videos :
                   /\ ~videos[v].isPrivate
                   /\ LiteralHits(videos[v], req'[s].search)}]_vars

\* C12: an upload with no file, and a link upload whose videoUrl is missing
\* or is no well-formed URL, are answered 400 by the handler's first step,
\* which writes no video, no user's list and no blob.
C12_BadUploadIs400 ==
    [][\A s \in Slots :
         (/\ req[s].pc = "idle"
          /\ \/ req'[s].op = "upload" /\ req'[s].url = Null /\ req'[s].by # "express"
             \/ /\ req'[s].op = "uploadLink"
                /\ (req'[s].url \in {Null, <<>>} \/ ~IsValidUrl(req'[s].url)))
         => (/\ req'[s].pc = "respond"
             /\ req'[s].status = 400
             /\ videos' = videos /\ users' = users /\ blobs' = blobs)]_vars

\* an upload without a file and a link upload of a string without scheme,
\* both answered, and the store still as it was set up
C12_Witness ==
    \E s, t \in Slots :
       /\ req[s].op = "upload" /\ req[s].pc = "respond" /\ req[s].status = 400
       /\ req[t].op = "uploadLink" /\ req[t].pc = "respond" /\ req[t].status = 400
       /\ req[t].url = UrlNoScheme
       /\ DOMAIN videos = {1}
       /\ users["u1"] = <<1>> /\ users["u2"] = <<>>

\* C13: two stored videos for whose URL extractVideoId derives no identifier
\* (link uploads that got link_<timestamp>) carry different storage
\* identifiers.
C13_SynthesizedIdsDistinct ==
    \A v, w \in DOMAIN videos :
       (/\ v # w
        /\ extractVideoId(videos[v].videoUrl) = Null
        /\ extractVideoId(videos[w].videoUrl) = Null)
       => videos[v].cloudinaryId # videos[w].cloudinaryId

\* C14: every tag stored on a video is trimmed and is not empty.
C14_TagsTrimmedNonEmpty ==
    \A v \in DOMAIN videos :
       \A i \in 1..Len(videos[v].tags) :
          /\ videos[v].tags[i] # <<>>
          /\ Head(videos[v].tags[i]) # " "
          /\ videos[v].tags[i][Len(videos[v].tags[i])] # " "

\* C15: when the owner-list update of an upload is refused, the request is
\* answered 500 out of the catch block and the step writes nothing: the saved
\* record is not taken back and the owner's list is not extended; and a
\* listing (first page, a limit above the number of videos) returns every
\* public video of the store, listed by its owner or not.
C15_PartialWriteStays ==
    [][\A s \in Slots :
         /\ (/\ req[s].op \in {"upload", "uploadLink"}
             /\ req[s].pc = "push"
             /\ req'[s].pc = "respond")
               => (/\ req'[s].status = 500 /\ req'[s].by = "catch"
                   /\ videos' = videos /\ users' = users)
         /\ (req[s].pc = "idle" /\ req'[s].op = "list" /\ req'[s].pc = "count")
               => \A v \in DOMAIN videos :
                     ~videos[v].isPrivate => v \in Range(req'[s].body.videos)]_vars

\* an upload answered 500 whose record is stored and missing from its owner's
\* list, and a listing that returns that record
C15_Witness ==
    \E s, t \in Slots :
       /\ req[t].op \in {"upload", "uploadLink"}
       /\ req[t].pc = "respond" /\ req[t].status = 500
       /\ req[t].vid \in DOMAIN videos
       /\ videos[req[t].vid].uploader = req[t].user
       /\ ~Lists(req[t].user, req[t].vid)
       /\ req[s].op = "list" /\ req[s].pc = "respond" /\ req[s].status = 200
       /\ req[t].vid \in Range(req[s].body.videos)

\* C20: every request that failed is answered by its handler: by one of its
\* returns or by its catch block.
C20_FailuresAnsweredByHandler ==
    \A s \in Slots :
       (req[s].pc = "respond" /\ req[s].status >= 400)
       => req[s].by \in {"handler", "catch"}

\* the step in which the link upload of slot s builds its document
BuildsLink(s) ==
    req[s].pc = "idle" /\ req'[s].op = "uploadLink" /\ req'[s].pc = "save"

\* C16: the first provider whose marker the URL contains decides: a Drive
\* thumbnail is given only to a URL with the Drive marker and without the
\* blob-store marker, a YouTube thumbnail only to a URL with a YouTube marker
\* and with neither of the former two, and a URL with the Drive marker,
\* without the blob-store marker and with neither the id= nor the /file/d/
\* pattern gets the placeholder thumbnail and no derived identifier.
C16_FirstMarkerDecides ==
    [][\A s \in Slots : BuildsLink(s) =>
         LET url == req'[s].url
             doc == req'[s].doc
             blob  == Includes(url, CLOUDINARY_COM)
             drive == Includes(url, DRIVE_GOOGLE_COM)
             tube  == Includes(url, YOUTUBE_COM) \/ Includes(url, YOUTU_BE)
         IN
         /\ StartsWithAt(doc.thumbnailUrl, DRIVE_THUMB, 1) => (drive /\ ~blob)
         /\ StartsWithAt(doc.thumbnailUrl, YT_THUMB, 1) => (tube /\ ~drive /\ ~blob)
         /\ (/\ drive /\ ~blob
             /\ MatchIdParam(url) = Null /\ MatchFilePath(url) = Null)
               => (/\ doc.thumbnailUrl = Placeholder
                   /\ extractVideoId(url) = Null
                   /\ doc.cloudinaryId = LINK_ \o <<ToString(now)>>)]_vars

\* the path segment that follows the leftmost /file/d/ of a URL
PathId(url) == RunUntil(url, IndexOf(url, FILE_D) + Len(FILE_D), "/")

\* the URL contains /file/d/<id>/ with an id that is not empty
HasFilePath(url) ==
    /\ IndexOf(url, FILE_D) > 0
    /\ PathId(url) # <<>>
    /\ IndexOf(url, FILE_D) + Len(FILE_D) + Len(PathId(url)) <= Len(url)

\* C17 as stated: every URL that contains /file/d/<id>/ gets the thumbnail
\* https://drive.google.com/thumbnail?id=<id>&sz=w800-h450.
C17_FilePathThumbnail ==
    [][\A s \in Slots : BuildsLink(s) =>
         (HasFilePath(req'[s].url)
            => req'[s].doc.thumbnailUrl
                 = DRIVE_THUMB \o PathId(req'[s].url) \o DRIVE_THUMB_SZ)]_vars

\* C17 as amended: every URL that contains the Drive marker, does not contain
\* the blob-store marker and contains /file/d/<id>/ gets that thumbnail, a
\* query parameter id= of the URL notwithstanding.
C17_DriveFilePathThumbnail ==
    [][\A s \in Slots : BuildsLink(s) =>
         ((/\ HasFilePath(req'[s].url)
           /\ Includes(req'[s].url, DRIVE_GOOGLE_COM)
           /\ ~Includes(req'[s].url, CLOUDINARY_COM))
            => req'[s].doc.thumbnailUrl
                 = DRIVE_THUMB \o PathId(req'[s].url) \o DRIVE_THUMB_SZ)]_vars

\* a stored Drive link with both patterns, its thumbnail made of the path's id
C17_Witness ==
    \E v \in DOMAIN videos :
       /\ HasFilePath(videos[v].videoUrl)
       /\ MatchIdParam(videos[v].videoUrl) # Null
       /\ Includes(videos[v].videoUrl, DRIVE_GOOGLE_COM)
       /\ videos[v].thumbnailUrl
            = DRIVE_THUMB \o <<"D","1">> \o DRIVE_THUMB_SZ

\* the URL begins with prefix and goes on with an id that ends at stop
IdAfter(url, prefix, stop) == RunUntil(url, Len(prefix) + 1, stop)

C19_NoMarkerFallsBack ==
    [][\A s \in Slots : BuildsLink(s) =>
         ((\A m \in {CLOUDINARY_COM, DRIVE_GOOGLE_COM, YOUTUBE_COM, YOUTU_BE,
                     VIMEO_COM} : ~Includes(req'[s].url, m))
            => (/\ req'[s].doc.thumbnailUrl = Placeholder
                /\ extractVideoId(req'[s].url) = Null
                /\ req'[s].doc.cloudinaryId = LINK_ \o <<ToString(now)>>))]_vars

\* a stored link without marker, with a path that looks like a Drive path
C19_Witness ==
    \E v \in DOMAIN videos :
       /\ \A m \in {CLOUDINARY_COM, DRIVE_GOOGLE_COM, YOUTUBE_COM, YOUTU_BE,
                    VIMEO_COM} : ~Includes(videos[v].videoUrl, m)
       /\ HasFilePath(videos[v].videoUrl)
       /\ videos[v].thumbnailUrl = Placeholder
       /\ StartsWithAt(videos[v].cloudinaryId, LINK_, 1)

\* C21: a like request that ran with no other request on its video between
\* its arrival and its reply answers liked = the caller is in the stored likes
\* after the save, and likesCount = the number of stored likes after the save.
C21_LikeReplyMatchesStore ==
    [][\A s \in Slots :
         (/\ Answers(s) /\ req'[s].op = "like" /\ req'[s].status = 200
          /\ pair.n \in {1, 3}
          /\ pair.user = req'[s].user /\ pair.vid = req'[s].vid)
         => (/\ req'[s].body.liked
                  = likesIncludes(videos'[req'[s].vid].likes, req'[s].user)
             /\ req'[s].body.likesCount = Len(videos'[req'[s].vid].likes))]_vars

\* a like and then an unlike of u2 on a video that u1 likes, each answered
\* alone: the second reply says not liked, one like left
C21_Witness ==
    \E s \in Slots :
       /\ pair.n = 4 /\ pair.user = "u2"
       /\ req[s].op = "like" /\ req[s].pc = "respond" /\ req[s].status = 200
       /\ req[s].user = "u2" /\ req[s].vid = pair.vid
       /\ ~req[s].body.liked /\ req[s].body.likesCount = 1
       /\ pair.vid \in DOMAIN videos
       /\ videos[pair.vid].likes = <<"u1">>

\* C22: a video enters the store with the caller of the upload that saves it
\* as its uploader, and no step changes the uploader of a stored video.
C22_UploaderImmutable ==
    [][/\ \A v \in DOMAIN videos \cap DOMAIN videos' :
             videos'[v].uploader = videos[v].uploader
       /\ \A v \in DOMAIN videos' \ DOMAIN videos :
             \E s \in Slots :
                /\ req[s].op \in {"upload", "uploadLink"} /\ req[s].pc = "save"
                /\ req[s].vid = v
                /\ req[s].user \in Users
                /\ videos'[v].uploader = req[s].user]_vars

\* the video that u2 uploaded, fetched once and liked by u1, is still u2's
\* after a delete attempt of u1 was turned down
C22_Witness ==
    \E s \in Slots :
       /\ 2 \in DOMAIN videos
       /\ videos[2].uploader = "u2"
       /\ videos[2].views = 1
       /\ videos[2].likes = <<"u1">>
       /\ req[s].op = "delete" /\ req[s].pc = "respond" /\ req[s].status = 403
       /\ req[s].vid = 2 /\ req[s].user = "u1"

CountOf(q, x) == Cardinality({i \in 1..Len(q) : q[i] = x})

\* C24: the likes of a stored video change only in the successful save of a
\* like request on it, and that save leaves the entries of every user other
\* than its caller as they are stored: what another user's like request has
\* saved is not undone.
C24_LikeTouchesOnlyCaller ==
    [][/\ \A v \in DOMAIN videos \cap DOMAIN videos' :
             videos'[v].likes # videos[v].likes
             => \E s \in Slots :
                   /\ req[s].op = "like" /\ req[s].pc = "save" /\ req[s].vid = v
                   /\ req'[s].pc = "respond" /\ req'[s].status = 200
       /\ \A s \in Slots :
             (/\ req[s].op = "like" /\ req[s].pc = "save"
              /\ req'[s].pc = "respond" /\ req'[s].status = 200)
             => \A u \in Users \ {req[s].user} :
                   CountOf(videos'[req[s].vid].likes, u)
                     = CountOf(videos[req[s].vid].likes, u)]_vars

\* two like requests of different users that loaded the same version of the
\* video, both answered with success, both users stored as liking
C24_Witness ==
    \E s, t \in Slots :
       /\ req[s].op = "like" /\ req[s].pc = "respond" /\ req[s].status = 200
       /\ req[t].op = "like" /\ req[t].pc = "respond" /\ req[t].status = 200
       /\ req[s].user = "u1" /\ req[t].user = "u2"
       /\ req[s].vid = req[t].vid
       /\ req[s].body.likesCount = 1 /\ req[t].body.likesCount = 1
       /\ req[s].vid \in DOMAIN videos
       /\ videos[req[s].vid].likes \in {<<"u1", "u2">>, <<"u2", "u1">>}

\* the stored or loaded document doc of id v is a file upload: its URL and
\* its identifier are the ones the blob store returned for it
IsFileUpload(v, doc) == doc.videoUrl = FilePath(v) /\ doc.cloudinaryId = FileName(v)

\* C25: a delete request is about to call the blob store's destroy only for a
\* video that was uploaded as a file.
C25_DestroyOnlyForFiles ==
    \A s \in Slots :
       (req[s].op = "delete" /\ req[s].pc = "destroy")
       => IsFileUpload(req[s].vid, req[s].doc)

\* C26: a delete request answered with an error whose video, a file upload,
\* is still stored, no other request on the video being in flight, has left
\* the video's blob in the blob store.
C26_FailedDeleteKeepsBlob ==
    \A s \in Slots :
       (/\ req[s].op = "delete" /\ req[s].pc = "respond" /\ req[s].status >= 400
        /\ InFlightOn(req[s].vid, s) = {}
        /\ req[s].vid \in DOMAIN videos
        /\ IsFileUpload(req[s].vid, videos[req[s].vid]))
       => videos[req[s].vid].cloudinaryId \in blobs

\* C27: for every Google Drive URL the three extractions of the file id agree:
\* the thumbnail, the stored cloudinaryId and the player's embed URL are built
\* from one and the same id, also when the URL holds both an id= parameter
\* and a /file/d/<id> path.
DriveIds(url) == {MatchIdParam(url), MatchFilePath(url)} \ {Null}

C27_DriveIdsAgree ==
    \A v \in DOMAIN videos :
        ( /\ player.mounted
          /\ player.src = videos[v].videoUrl
          /\ isGoogleDriveVideo(videos[v].videoUrl)
          /\ ~Includes(videos[v].videoUrl, CLOUDINARY_COM)
          /\ DriveIds(videos[v].videoUrl) # {} )
        => \E id \in DriveIds(videos[v].videoUrl) :
             /\ videos[v].thumbnailUrl = DRIVE_THUMB \o id \o DRIVE_THUMB_SZ
             /\ videos[v].cloudinaryId = DRIVE_ \o id
             /\ player.embedUrl = DRIVE_EMBED \o id \o PREVIEW

\* C29: after any sequence of handleVolumeChange and toggleMute the native
\* player shows muted exactly when the volume of the media element is 0.
C29_MutedIffSilent ==
    IsNative => (player.isMuted <=> player.elVolume = 0)

\* C30: whenever the native player is not playing its controls are visible.
C30_ControlsShownWhenNotPlaying ==
    IsNative => (~player.isPlaying => player.showControls)

\* C28: once every catalogue request of Home is answered, the list on display
\* is the answer to the most recent search query.
C28_HomeShowsLatestQuery ==
    ( /\ home.mounted
      /\ home.pending = {}
      /\ IsValidRegex(home.searchQuery) )
    => \E o \in SortedOrders(videos,
                             queryMatches(videos, homeSearchParam(home.searchQuery))) :
         home.videos = skipLimit(o, 1, DefaultLimit)

====
